---- MODULE Spec2Model ----
(***************************************************************************)
(* goembed: reads stdin and prints a Go source file that embeds the bytes  *)
(* as []byte("<string literal>"), optionally gzip-compressed.              *)
(*                                                                         *)
(* Two specifications:                                                     *)
(*   SpecW - the literal encoder, writer.Write, called on chunks of an     *)
(*           input over an underlying writer that may fail;                *)
(*   Spec  - func main, statement by statement, with every I/O outcome.    *)
(* Bytes are integers 0..255, texts are sequences of bytes.                *)
(***************************************************************************)
EXTENDS Integers, Sequences, FiniteSets, TLC

VARIABLES
    \* ---- writer.Write under test (SpecW)
    data,      \* the whole byte sequence B handed to the writer, chunk by chunk
    pos,       \* number of bytes of B consumed by the calls made so far
    uw,        \* the underlying io.Writer w.w: text accepted, write attempts
    ncalls,    \* number of calls of writer.Write made
    last,      \* the last call: its chunk, return values and loop iterations
    \* ---- func main (Spec)
    pc,        \* position in main
    stdin,     \* content of standard input
    gzipFlag,  \* *gzipFlag
    raw,       \* main's variable raw
    buf,       \* main's bytes.Buffer buf (gzip output)
    stdout,    \* what reached standard output, segment by segment
    exit,      \* exit status, -1 while running
    failed,    \* ghost: the failures that happened so far
    mode       \* which specification the behaviour belongs to

vars == <<data, pos, uw, ncalls, last, pc, stdin, gzipFlag, raw, buf, stdout, exit, failed, mode>>
wvars == <<data, pos, uw, ncalls, last>>
mvars == <<pc, stdin, gzipFlag, raw, buf, stdout, exit, failed>>

\* ---------------------------------------------------------------- bounds
\* inputs are concatenations of at most MaxAtoms atoms (MaxRaw in main), of
\* at most MaxBytes bytes
MaxAtoms == 3
MaxBytes == 5
MaxRaw == 2
\* at most MaxCalls calls of writer.Write on one writer
MaxCalls == 3

\* Single bytes: NUL, newline, quote, 'a', backslash, a continuation byte,
\* a 2-byte lead, a 3-byte lead.
SingleBytes == {0, 10, 34, 97, 92, 128, 195, 239}

\* Multi-byte atoms: U+FEFF (BOM), U+FFFD, U+20AC, U+10000.
MultiAtoms == {<<239, 187, 191>>, <<239, 191, 189>>, <<226, 130, 172>>, <<240, 144, 128, 128>>}

Atoms == {<<b>> : b \in SingleBytes} \cup MultiAtoms

RECURSIVE Inputs(_, _)
Inputs(k, maxLen) ==
    IF k = 0 THEN {<<>>}
    ELSE LET shorter == Inputs(k - 1, maxLen)
         IN shorter \cup {x \in {s \o a : s \in shorter, a \in Atoms} : Len(x) <= maxLen}

Drop(s, k) == SubSeq(s, k + 1, Len(s))
Take(s, k) == SubSeq(s, 1, k)

\* ------------------------------------------------------- unicode/utf8
RuneError == 65533
byteOrderMark == 65279

\* utf8.DecodeRune(p): the rune at the head of p and its width in bytes;
\* (RuneError, 0) for empty p, (RuneError, 1) for an invalid or incomplete
\* encoding.  Lead-byte classes and acceptance ranges as in the library.
Size(p0) ==
    IF p0 < 128 THEN 1
    ELSE IF p0 < 194 THEN 0
    ELSE IF p0 < 224 THEN 2
    ELSE IF p0 < 240 THEN 3
    ELSE IF p0 < 245 THEN 4
    ELSE 0

AcceptLo(p0) == IF p0 = 224 THEN 160 ELSE IF p0 = 240 THEN 144 ELSE 128
AcceptHi(p0) == IF p0 = 237 THEN 159 ELSE IF p0 = 244 THEN 143 ELSE 191
IsCont(b) == b >= 128 /\ b <= 191

DecodeRune(p) ==
    IF Len(p) < 1 THEN [r |-> RuneError, size |-> 0]
    ELSE LET p0 == p[1]
             sz == Size(p0)
             bad == [r |-> RuneError, size |-> 1]
         IN IF sz = 1 THEN [r |-> p0, size |-> 1]
            ELSE IF sz = 0 THEN bad
            ELSE IF Len(p) < sz THEN bad
            ELSE IF p[2] < AcceptLo(p0) \/ AcceptHi(p0) < p[2] THEN bad
            ELSE IF sz = 2 THEN [r |-> (p0 % 32) * 64 + (p[2] % 64), size |-> 2]
            ELSE IF ~IsCont(p[3]) THEN bad
            ELSE IF sz = 3
                 THEN [r |-> (p0 % 16) * 4096 + (p[2] % 64) * 64 + (p[3] % 64), size |-> 3]
            ELSE IF ~IsCont(p[4]) THEN bad
            ELSE [r |-> (p0 % 8) * 262144 + (p[2] % 64) * 4096 + (p[3] % 64) * 64 + (p[4] % 64),
                  size |-> 4]

\* ------------------------------------------------------- fmt verbs
\* one digit of %x: 0-9, a-f
HexDigit(d) == IF d < 10 THEN 48 + d ELSE 87 + d
HexDigitUpper(d) == IF d < 10 THEN 48 + d ELSE 55 + d

\* %d of a byte: decimal digits, at least two
DecDigits(b) ==
    IF b < 100 THEN <<48 + (b \div 10), 48 + (b % 10)>>
    ELSE <<48 + (b \div 100), 48 + ((b \div 10) % 10), 48 + (b % 10)>>

\* mutant: the verb is `\x%02d`
HexEscapeDecimal(b) == <<92, 120>> \o DecDigits(b)

\* mutant: the verb is `\x%02X`
HexEscapeUpper(b) == <<92, 120, HexDigitUpper(b \div 16), HexDigitUpper(b % 16)>>

\* fmt.Fprintf(w.w, `\x%02x`, b): the text it writes
HexEscape(b) == <<92, 120, HexDigit(b \div 16), HexDigit(b % 16)>>

\* ------------------------------------------------------- writer.Write
\* mutant: no case '\x00', a NUL byte reaches the default case
IterationNoNul(d) ==
    LET b == d[1]
        dec == DecodeRune(d)
    IN CASE b = 92 -> [text |-> <<92, 92>>, adv |-> 1]
         [] b = 34 -> [text |-> <<92, 34>>, adv |-> 1]
         [] b = 10 -> [text |-> <<92, 110>>, adv |-> 1]
         [] OTHER ->
              IF dec.r # RuneError /\ dec.r # byteOrderMark
              THEN [text |-> Take(d, dec.size), adv |-> dec.size]
              ELSE [text |-> HexEscape(b), adv |-> 1]

\* mutant: the `continue` after a rune is missing, data = data[1:] runs too
IterationNoContinue(d) ==
    LET b == d[1]
        dec == DecodeRune(d)
    IN CASE b = 92 -> [text |-> <<92, 92>>, adv |-> 1]
         [] b = 34 -> [text |-> <<92, 34>>, adv |-> 1]
         [] b = 10 -> [text |-> <<92, 110>>, adv |-> 1]
         [] b = 0 -> [text |-> <<92, 120, 48, 48>>, adv |-> 1]
         [] OTHER ->
              IF dec.r # RuneError /\ dec.r # byteOrderMark
              THEN [text |-> Take(d, dec.size),
                    adv |-> IF dec.size + 1 <= Len(d) THEN dec.size + 1 ELSE Len(d)]
              ELSE [text |-> HexEscape(b), adv |-> 1]

\* One iteration of the loop on non-empty data d: the text handed to the
\* underlying writer and the number of bytes data is advanced by.
Iteration(d) ==
    LET b == d[1]
        dec == DecodeRune(d)
    IN CASE b = 92 -> [text |-> <<92, 92>>, adv |-> 1]
         [] b = 34 -> [text |-> <<92, 34>>, adv |-> 1]
         [] b = 10 -> [text |-> <<92, 110>>, adv |-> 1]
         [] b = 0 -> [text |-> <<92, 120, 48, 48>>, adv |-> 1]
         [] OTHER ->
              IF dec.r # RuneError /\ dec.r # byteOrderMark
              THEN [text |-> Take(d, dec.size), adv |-> dec.size]
              ELSE [text |-> HexEscape(b), adv |-> 1]

\* w.w.Write(p) on an underlying writer whose failAt-th write fails
\* (failAt = 0: none fails).  A failing write accepts nothing.
UnderlyingWrite(w, p) ==
    LET k == w.attempts + 1
    IN IF k = w.failAt
       THEN [w |-> [w EXCEPT !.attempts = k], err |-> TRUE]
       ELSE [w |-> [w EXCEPT !.attempts = k, !.text = @ \o p], err |-> FALSE]

\* for err == nil && len(data) > 0 { ... }
RECURSIVE Loop(_, _, _, _)
Loop(d, w, err, iters) ==
    IF err \/ Len(d) = 0 THEN [d |-> d, w |-> w, err |-> err, iters |-> iters]
    ELSE LET it == Iteration(d)
             res == UnderlyingWrite(w, it.text)
         IN Loop(Drop(d, it.adv), res.w, res.err, Append(iters, it))

\* mutant: returns n, not n - len(data)
WriteReturnsLen(w, d) ==
    LET n == Len(d)
        f == Loop(d, w, FALSE, <<>>)
    IN [n |-> n, err |-> f.err, w |-> f.w, iters |-> f.iters]

\* writer.Write(data): (n, err), the underlying writer afterwards, and the
\* iterations the loop made
Write(w, d) ==
    LET n == Len(d)
        f == Loop(d, w, FALSE, <<>>)
    IN [n |-> n - Len(f.d), err |-> f.err, w |-> f.w, iters |-> f.iters]

\* number of underlying writes a call on d makes when none fails
NumWrites(d) == Len(Write([text |-> <<>>, attempts |-> 0, failAt |-> 0], d).iters)

NoCall ==
    [chunk |-> <<>>, n |-> 0, err |-> FALSE, iters |-> <<>>, before |-> 0, tlen |-> 0,
     failAt |-> 0]

\* ------------------------------------------------------- SpecW
MainIdle ==
    /\ pc = "idle" /\ stdin = <<>> /\ gzipFlag = FALSE /\ raw = <<>> /\ buf = <<>>
    /\ stdout = <<>> /\ exit = -1 /\ failed = {}

InitW ==
    /\ mode = "writer"
    /\ data \in Inputs(MaxAtoms, MaxBytes)
    /\ pos = 0
    /\ uw = [text |-> <<>>, attempts |-> 0, failAt |-> 0]
    /\ ncalls = 0
    /\ last = NoCall
    /\ MainIdle

\* one call of writer.Write on the next k bytes of B
Call(k, failAt) ==
    LET chunk == SubSeq(data, pos + 1, pos + k)
        w0 == [uw EXCEPT !.failAt = IF failAt = 0 THEN 0 ELSE uw.attempts + failAt]
        res == Write(w0, chunk)
    IN /\ uw' = res.w
       /\ pos' = pos + res.n
       /\ ncalls' = ncalls + 1
       /\ last' = [chunk |-> chunk, n |-> res.n, err |-> res.err, iters |-> res.iters,
                   before |-> uw.attempts, tlen |-> Len(uw.text), failAt |-> failAt]
       /\ UNCHANGED <<data, mode>>
       /\ UNCHANGED mvars

\* a call during which no underlying write fails
WriteOk ==
    /\ mode = "writer" /\ ~last.err /\ ncalls < MaxCalls
    /\ \E k \in 0..(Len(data) - pos) :
          /\ k = 0 => (Len(data) = 0 /\ ncalls = 0)
          /\ Call(k, 0)

\* a call during which the failAt-th underlying write fails
WriteFail ==
    /\ mode = "writer" /\ ~last.err /\ ncalls < MaxCalls
    /\ \E k \in 1..(Len(data) - pos) :
          \E failAt \in 1..NumWrites(SubSeq(data, pos + 1, pos + k)) :
              Call(k, failAt)

NextW == WriteOk \/ WriteFail

SpecW == InitW /\ [][NextW]_vars

\* ------------------------------------------------------- reading a literal
\* The value of a hex digit character, -1 for any other character.
HexVal(c) ==
    IF c >= 48 /\ c <= 57 THEN c - 48
    ELSE IF c >= 97 /\ c <= 102 THEN c - 87
    ELSE IF c >= 65 /\ c <= 70 THEN c - 55
    ELSE -1

\* The bytes a text stands for as the body of a Go interpreted string
\* literal: \\ \" \n \xNN are escapes, every other byte stands for itself.
RECURSIVE UnquoteFrom(_, _, _)
UnquoteFrom(t, i, acc) ==
    IF i > Len(t) THEN [ok |-> TRUE, bytes |-> acc]
    ELSE IF t[i] # 92 THEN UnquoteFrom(t, i + 1, Append(acc, t[i]))
    ELSE IF i + 1 > Len(t) THEN [ok |-> FALSE, bytes |-> acc]
    ELSE IF t[i + 1] = 92 THEN UnquoteFrom(t, i + 2, Append(acc, 92))
    ELSE IF t[i + 1] = 34 THEN UnquoteFrom(t, i + 2, Append(acc, 34))
    ELSE IF t[i + 1] = 110 THEN UnquoteFrom(t, i + 2, Append(acc, 10))
    ELSE IF t[i + 1] = 120 /\ i + 3 <= Len(t) /\ HexVal(t[i + 2]) >= 0 /\ HexVal(t[i + 3]) >= 0
         THEN UnquoteFrom(t, i + 4, Append(acc, 16 * HexVal(t[i + 2]) + HexVal(t[i + 3])))
    ELSE [ok |-> FALSE, bytes |-> acc]

Unquote(t) == UnquoteFrom(t, 1, <<>>)

DecodesTo(t, bytes) == Unquote(t) = [ok |-> TRUE, bytes |-> bytes]

\* every '"' of t is the second character of an escape pair
RECURSIVE QuotesEscapedFrom(_, _)
QuotesEscapedFrom(t, i) ==
    IF i > Len(t) THEN TRUE
    ELSE IF t[i] = 92
         THEN /\ i + 1 <= Len(t)
              /\ QuotesEscapedFrom(t, i + (IF t[i + 1] = 120 THEN 4 ELSE 2))
    ELSE IF t[i] = 34 THEN FALSE
    ELSE QuotesEscapedFrom(t, i + 1)

Legal(t) ==
    /\ \A i \in 1..Len(t) : t[i] # 10 /\ t[i] # 0
    /\ \A i \in 1..(Len(t) - 2) : ~(t[i] = 239 /\ t[i + 1] = 187 /\ t[i + 2] = 191)
    /\ QuotesEscapedFrom(t, 1)

Range(s) == {s[i] : i \in 1..Len(s)}

\* the whole of B went through one call, and no underlying write failed
OneCallDone == mode = "writer" /\ ncalls = 1 /\ ~last.err /\ last.chunk = data

\* C1: round trip - the text one call of writer.Write emits for B over a
\* non-failing writer decodes, as a Go interpreted string literal body, to B.
C1_RoundTrip == OneCallDone => DecodesTo(uw.text, data)

C1_Witness ==
    /\ OneCallDone
    /\ data = <<239, 187, 191, 10, 97>>
    /\ uw.text # data

\* C2: legality - after calls in which no write failed the emitted text has
\* no raw newline, no raw NUL, no raw EF BB BF, and no double quote that is
\* not the second character of an escape pair.
C2_Legality == (mode = "writer" /\ ~last.err) => Legal(uw.text)

C2_Witness ==
    /\ OneCallDone
    /\ {0, 10, 34} \subseteq Range(data)

\* UTF-8 encoding of a code point, as the encoding is defined
EncodeRune(cp) ==
    IF cp < 128 THEN <<cp>>
    ELSE IF cp < 2048 THEN <<192 + (cp \div 64), 128 + (cp % 64)>>
    ELSE IF cp < 65536
         THEN <<224 + (cp \div 4096), 128 + ((cp \div 64) % 64), 128 + (cp % 64)>>
    ELSE <<240 + (cp \div 262144), 128 + ((cp \div 4096) % 64), 128 + ((cp \div 64) % 64),
           128 + (cp % 64)>>

\* code points other than U+FEFF, backslash, quote, newline and NUL:
\* 'a', U+00C0, U+20AC, U+FFFD, U+10000
CleanRunes == {97, 192, 8364, 65533, 65536}

IsPrefix(a, s) == Len(a) <= Len(s) /\ Take(s, Len(a)) = a

RECURSIVE IsCleanText(_)
IsCleanText(s) ==
    \/ s = <<>>
    \/ \E cp \in CleanRunes :
          /\ IsPrefix(EncodeRune(cp), s)
          /\ IsCleanText(Drop(s, Len(EncodeRune(cp))))

\* C3: escaping minimality - a concatenation of valid UTF-8 encodings of
\* code points other than U+FEFF, backslash, quote, newline and NUL, U+FFFD
\* included, is emitted unchanged, without any hex escape.
C3_Minimality == (OneCallDone /\ IsCleanText(data)) => uw.text = data

\* the escape the language defines for byte b, hex digits in lower case
LowerHex == <<48, 49, 50, 51, 52, 53, 54, 55, 56, 57, 97, 98, 99, 100, 101, 102>>

EscapeOf(b) ==
    IF b = 92 THEN <<92, 92>>
    ELSE IF b = 34 THEN <<92, 34>>
    ELSE IF b = 10 THEN <<92, 110>>
    ELSE <<92, 120, LowerHex[(b \div 16) + 1], LowerHex[(b % 16) + 1]>>

RECURSIVE SumAdv(_, _)
SumAdv(iters, k) == IF k = 0 THEN 0 ELSE SumAdv(iters, k - 1) + iters[k].adv

\* C8: escape granularity - every escape of a call stands for exactly one
\* input byte; a byte at the scan position that is backslash, quote, newline
\* or NUL, or at which decoding fails or yields U+FEFF, produces its escape
\* and advances the scan by one byte; 0x80 yields \x80, EF BB BF yields
\* \xef\xbb\xbf.
C8_Granularity ==
    mode = "writer" =>
        /\ \A k \in 1..Len(last.iters) :
              LET it == last.iters[k]
                  d == Drop(last.chunk, SumAdv(last.iters, k - 1))
                  dec == DecodeRune(d)
              IN /\ Len(d) >= 1
                 /\ it.text[1] = 92 => (it.adv = 1 /\ it.text = EscapeOf(d[1]))
                 /\ it.text[1] # 92 => (it.adv \in 1..4 /\ it.text = Take(d, it.adv))
                 /\ (\/ d[1] \in {92, 34, 10, 0}
                     \/ (dec.r = RuneError /\ dec.size = 1)
                     \/ dec.r = byteOrderMark)
                    => (it.adv = 1 /\ it.text = EscapeOf(d[1]))
        /\ (OneCallDone /\ data = <<128>>) => uw.text = <<92, 120, 56, 48>>
        /\ (OneCallDone /\ data = <<239, 187, 191>>)
              => uw.text = <<92, 120, 101, 102, 92, 120, 98, 98, 92, 120, 98, 102>>

C8_Witness ==
    /\ OneCallDone
    /\ data = <<239, 187, 191, 128>>
    /\ Len(last.iters) = 4

\* C9: return value - without a failing write a call returns (len(data),
\* nil); when a write fails the call makes no further write and returns the
\* error with the number of input bytes of all units scanned up to and
\* including the one whose write failed, between 0 and len(data).
C9_ReturnValue ==
    (mode = "writer" /\ ncalls >= 1) =>
        LET made == uw.attempts - last.before
            accepted == Drop(uw.text, last.tlen)
        IN /\ last.n >= 0 /\ last.n <= Len(last.chunk)
           /\ ~last.err => last.n = Len(last.chunk)
           /\ last.err =>
                 /\ made = last.failAt
                 /\ Len(last.iters) = last.failAt
                 /\ last.n = SumAdv(last.iters, last.failAt)
                 /\ last.iters[last.failAt].adv \in 1..4
                 /\ DecodesTo(accepted, Take(last.chunk, last.n - last.iters[last.failAt].adv))

C9_Witness ==
    /\ mode = "writer" /\ last.err
    /\ last.chunk = <<97, 226, 130, 172, 97>>
    /\ last.failAt = 2
    /\ last.n = 4

\* C10: chunking-independent round trip - however B is split into the
\* chunks of successive calls, the concatenated text decodes to B and is
\* legal, though it may differ from the text of a single call.
C10_ChunkedRoundTrip ==
    (mode = "writer" /\ ncalls >= 2 /\ ~last.err /\ pos = Len(data))
        => (DecodesTo(uw.text, data) /\ Legal(uw.text))

C10_Witness ==
    /\ mode = "writer" /\ ncalls = 2 /\ ~last.err /\ pos = Len(data)
    /\ data = <<226, 130, 172>>
    /\ uw.text # data

\* ------------------------------------------------------- func main
\* Standard output is recorded as the sequence of segments that reached it:
\*   header   package <package>
\*   decl     var <var> = []byte("
\*   imports  the import block of gzipPrologue
\*   init     the func init() of gzipPrologue, which gunzips <var>_gzip into <var>
\*   var      var <var> []byte // set in init
\*   gzdecl   var <var>_gzip = []byte("
\*   literal  the text writer.Write emitted (txt)
\*   close    ")
\* whole is FALSE for a segment cut short by a failing write.
Seg(kind) == [seg |-> kind, txt |-> <<>>, whole |-> TRUE]

\* mutant: the template has no func init()
gzipPrologueNoInit == <<"imports">>

\* the template gzipPrologue: the import block, then func init()
gzipPrologue == <<"imports", "init">>

\* compress/gzip, as a framing: magic bytes 1f 8b, the payload, a length
\* trailer.  Write emits header and payload, Close the trailer.
GzipMagic == <<31, 139>>
GzipTrailer(payload) == <<Len(payload) % 256>>

\* gzip.NewReader + ioutil.ReadAll of the generated func init()
Gunzip(z) ==
    IF /\ Len(z) >= 3
       /\ Take(z, 2) = GzipMagic
       /\ z[Len(z)] = (Len(z) - 3) % 256
    THEN [ok |-> TRUE, bytes |-> SubSeq(z, 3, Len(z) - 1)]
    ELSE [ok |-> FALSE, bytes |-> <<>>]

WriterIdle ==
    /\ data = <<>> /\ pos = 0 /\ ncalls = 0 /\ last = NoCall
    /\ uw = [text |-> <<>>, attempts |-> 0, failAt |-> 0]

Init ==
    /\ mode = "main"
    /\ pc = "read"
    /\ stdin \in Inputs(MaxRaw, MaxBytes)
    /\ gzipFlag \in BOOLEAN
    /\ raw = <<>>
    /\ buf = <<>>
    /\ stdout = <<>>
    /\ exit = -1
    /\ failed = {}
    /\ WriterIdle

\* a write of the segments segs to os.Stdout whose error, if any, is "site":
\* all of it arrives, or the write fails after none or a part of it
ToStdout(segs, site, res) ==
    /\ res \in {"ok", "short", "fail"}
    /\ stdout' = CASE res = "ok" -> stdout \o [i \in 1..Len(segs) |-> Seg(segs[i])]
                   [] res = "short" -> Append(stdout, [Seg(segs[1]) EXCEPT !.whole = FALSE])
                   [] OTHER -> stdout
    /\ failed' = IF res = "ok" THEN failed ELSE failed \cup {site}

\* log.Fatal, log.Fatalf: os.Exit(1)
Fatal == pc' = "exited" /\ exit' = 1

\* raw, err := ioutil.ReadAll(os.Stdin); if err != nil { log.Fatalf }
ReadAll ==
    /\ mode = "main" /\ pc = "read"
    /\ \/ /\ raw' = stdin
          /\ pc' = "header"
          /\ UNCHANGED <<exit, failed>>
       \/ /\ failed' = failed \cup {"stdin"}
          /\ Fatal
          /\ UNCHANGED raw
    /\ UNCHANGED <<stdin, gzipFlag, buf, stdout, mode>>
    /\ UNCHANGED wvars

\* fmt.Printf("package %s\n\n", *packageFlag); the result is not looked at
PrintHeader ==
    /\ mode = "main" /\ pc = "header"
    /\ \E res \in {"ok", "short", "fail"} : ToStdout(<<"header">>, "header", res)
    /\ pc' = IF ~gzipFlag THEN "decl" ELSE "gzwrite"
    /\ UNCHANGED <<stdin, gzipFlag, raw, buf, exit, mode>>
    /\ UNCHANGED wvars

\* fmt.Printf(`var %s = []byte("`, *varFlag); the result is not looked at
PrintDecl ==
    /\ mode = "main" /\ pc = "decl"
    /\ \E res \in {"ok", "short", "fail"} : ToStdout(<<"decl">>, "decl", res)
    /\ pc' = "copy"
    /\ UNCHANGED <<stdin, gzipFlag, raw, buf, exit, mode>>
    /\ UNCHANGED wvars

\* gzw.Write(raw) into buf; an error is fatal, and running out of memory
\* while buf grows panics (exit status 2)
GzipWrite ==
    /\ mode = "main" /\ pc = "gzwrite"
    /\ \/ /\ buf' = GzipMagic \o raw
          /\ pc' = "gzclose"
          /\ UNCHANGED <<exit, failed>>
       \/ /\ failed' = failed \cup {"gzip"}
          /\ pc' = "exited"
          /\ exit' \in {1, 2}
          /\ UNCHANGED buf
    /\ UNCHANGED <<stdin, gzipFlag, raw, stdout, mode>>
    /\ UNCHANGED wvars

\* mutant: the error of gzw.Close() is not looked at
GzipCloseUnchecked ==
    /\ mode = "main" /\ pc = "gzclose"
    /\ \/ /\ buf' = buf \o GzipTrailer(raw)
          /\ UNCHANGED failed
       \/ /\ failed' = failed \cup {"gzip"}
          /\ UNCHANGED buf
    /\ pc' = "prologue"
    /\ UNCHANGED <<stdin, gzipFlag, raw, stdout, exit, mode>>
    /\ UNCHANGED wvars

\* gzw.Close(); gz := buf.Bytes()
GzipClose ==
    /\ mode = "main" /\ pc = "gzclose"
    /\ \/ /\ buf' = buf \o GzipTrailer(raw)
          /\ pc' = "prologue"
          /\ UNCHANGED <<exit, failed>>
       \/ /\ failed' = failed \cup {"gzip"}
          /\ pc' = "exited"
          /\ exit' \in {1, 2}
          /\ UNCHANGED buf
    /\ UNCHANGED <<stdin, gzipFlag, raw, stdout, mode>>
    /\ UNCHANGED wvars

\* gzipPrologue.Execute(os.Stdout, *varFlag); an error is fatal
ExecutePrologue ==
    /\ mode = "main" /\ pc = "prologue"
    /\ \E res \in {"ok", "short", "fail"} :
          /\ ToStdout(gzipPrologue, "prologue", res)
          /\ IF res = "ok" THEN pc' = "var" /\ UNCHANGED exit ELSE Fatal
    /\ UNCHANGED <<stdin, gzipFlag, raw, buf, mode>>
    /\ UNCHANGED wvars

\* fmt.Printf("var %s []byte // set in init\n\n", *varFlag)
PrintVar ==
    /\ mode = "main" /\ pc = "var"
    /\ \E res \in {"ok", "short", "fail"} : ToStdout(<<"var">>, "var", res)
    /\ pc' = "gzdecl"
    /\ UNCHANGED <<stdin, gzipFlag, raw, buf, exit, mode>>
    /\ UNCHANGED wvars

\* mutant: raw = gz is missing
PrintGzipDeclKeepsRaw ==
    /\ mode = "main" /\ pc = "gzdecl"
    /\ \E res \in {"ok", "short", "fail"} : ToStdout(<<"gzdecl">>, "gzdecl", res)
    /\ pc' = "copy"
    /\ UNCHANGED <<stdin, gzipFlag, raw, buf, exit, mode>>
    /\ UNCHANGED wvars

\* fmt.Printf(`var %s_gzip = []byte("`, *varFlag); raw = gz
PrintGzipDecl ==
    /\ mode = "main" /\ pc = "gzdecl"
    /\ \E res \in {"ok", "short", "fail"} : ToStdout(<<"gzdecl">>, "gzdecl", res)
    /\ raw' = buf
    /\ pc' = "copy"
    /\ UNCHANGED <<stdin, gzipFlag, buf, exit, mode>>
    /\ UNCHANGED wvars

\* io.Copy(&writer{w: os.Stdout}, bytes.NewReader(raw)): the reader hands
\* all of raw to one call of writer.Write; the result is not looked at
Copy ==
    /\ mode = "main" /\ pc = "copy"
    /\ \E failAt \in 0..NumWrites(raw) :
          LET res == Write([text |-> <<>>, attempts |-> 0, failAt |-> failAt], raw)
          IN /\ stdout' = Append(stdout, [seg |-> "literal", txt |-> res.w.text,
                                          whole |-> ~res.err])
             /\ failed' = IF res.err THEN failed \cup {"literal"} ELSE failed
    /\ pc' = "close"
    /\ UNCHANGED <<stdin, gzipFlag, raw, buf, exit, mode>>
    /\ UNCHANGED wvars

\* fmt.Println(`")`); main returns
PrintClose ==
    /\ mode = "main" /\ pc = "close"
    /\ \E res \in {"ok", "short", "fail"} : ToStdout(<<"close">>, "close", res)
    /\ pc' = "exited"
    /\ exit' = 0
    /\ UNCHANGED <<stdin, gzipFlag, raw, buf, mode>>
    /\ UNCHANGED wvars

Next ==
    \/ ReadAll
    \/ PrintHeader
    \/ PrintDecl
    \/ GzipWrite
    \/ GzipClose
    \/ ExecutePrologue
    \/ PrintVar
    \/ PrintGzipDecl
    \/ Copy
    \/ PrintClose

Spec == Init /\ [][Next]_vars

\* ------------------------------------------------------- claims on main
Kinds == [i \in 1..Len(stdout) |-> stdout[i].seg]

\* main returned, and nothing failed on the way
Success == mode = "main" /\ pc = "exited" /\ exit = 0 /\ failed = {}

\* C4: every error is terminal - a run in which reading stdin, the
\* compressor or a write to standard output failed ends with a non-zero
\* exit status, never with status zero.
C4_EveryErrorTerminal ==
    (mode = "main" /\ pc = "exited" /\ failed # {}) => exit # 0

\* C5 as stated: when the compression step fails the process aborts with a
\* non-zero status and nothing has been written to standard output.
C5_NoOutputAtAbort ==
    (mode = "main" /\ "gzip" \in failed) => (pc = "exited" /\ exit > 0 /\ stdout = <<>>)

\* C5: when the compression step fails the process aborts with a non-zero
\* status, and standard output holds at most the package header then.
C5_OnlyHeaderAtAbort ==
    (mode = "main" /\ "gzip" \in failed)
        => /\ pc = "exited" /\ exit > 0
           /\ Len(stdout) <= 1
           /\ \A i \in 1..Len(stdout) : stdout[i].seg = "header"

C5_Witness ==
    /\ mode = "main" /\ "gzip" \in failed
    /\ stdout = <<Seg("header")>>
    /\ buf # <<>>

\* the position of the one segment of a kind, 0 when there is not exactly one
IndexOf(kind) ==
    LET at == {i \in 1..Len(stdout) : stdout[i].seg = kind}
    IN IF Cardinality(at) = 1 THEN CHOOSE i \in at : TRUE ELSE 0

\* C6 as stated: with compression a successful run emits the header, the
\* import block, `var <var> []byte`, the `<var>_gzip` declaration, and the
\* initializer after both variable declarations.
C6_InitAfterDecls ==
    (Success /\ gzipFlag)
        => /\ IndexOf("header") = 1
           /\ IndexOf("imports") = 2
           /\ IndexOf("var") > IndexOf("imports")
           /\ IndexOf("gzdecl") > IndexOf("var")
           /\ IndexOf("init") > IndexOf("gzdecl")

\* C6: with compression a successful run emits, in this order, the header,
\* the prologue (import block, then the initializer), `var <var> []byte`,
\* the `<var>_gzip` declaration with its literal, and the closing `")`: the
\* initializer comes before both variable declarations.
C6_EmissionOrder ==
    (Success /\ gzipFlag)
        => Kinds = <<"header", "imports", "init", "var", "gzdecl", "literal", "close">>

C6_Witness == Success /\ gzipFlag /\ Len(stdin) >= 2

\* C7: payload selection - without compression the one literal is the
\* encoding of the raw input, bound to <var>, and there is no stub, no
\* <var>_gzip and no init; with compression the one literal is bound to
\* <var>_gzip, does not decode to the raw bytes, and decodes to bytes that
\* gunzip to exactly the raw input.
C7_PayloadSelection ==
    Success =>
        LET l == IndexOf("literal")
            lit == Unquote(stdout[l].txt)
        IN /\ l > 1
           /\ lit.ok
           /\ ~gzipFlag =>
                 /\ Kinds = <<"header", "decl", "literal", "close">>
                 /\ lit.bytes = stdin
           /\ gzipFlag =>
                 /\ stdout[l - 1].seg = "gzdecl"
                 /\ IndexOf("decl") = 0
                 /\ lit.bytes # stdin
                 /\ Gunzip(lit.bytes) = [ok |-> TRUE, bytes |-> stdin]

C7_Witness ==
    /\ Success /\ gzipFlag
    /\ stdin = <<0, 239>>
    /\ stdout[6].txt = <<31, 92, 120, 56, 98, 92, 120, 48, 48, 92, 120, 101, 102, 2>>

====
